---- MODULE Spec2Model ----
(***************************************************************************)
(* kvasir: file discovery (list_files), the parse orchestrator             *)
(* (parse_files / parse_file over the decoder registry) and the document   *)
(* pipeline (split_template_content / write_rendered_files).               *)
(*                                                                         *)
(* Text is a sequence of one-character strings; the split delimiter is one *)
(* symbol.  A path is the text of its spelling, exactly as the program     *)
(* holds it in a PathBuf; its components are computed as std::path does.   *)
(***************************************************************************)
EXTENDS Integers, Sequences, FiniteSets, TLC

VARIABLES
    globs,        \* list_files input: for each pattern, what glob::glob yields
    files,        \* list_files output .0 (discovered paths)
    listErrors,   \* list_files output .1 (the GlobErrors)
    store,        \* what the filesystem held for the file parse_file last read
    ppc,          \* position of parse_files
    idx,          \* number of discovered files already parsed
    successes,    \* parse_files accumulator .0
    failures,     \* parse_files accumulator .1
    calls,        \* can_parse / parse invocations of the last parse_file
    reads,        \* filesystem reads of the content during the last parse_file
    cache_reads,  \* those of them that get_contents() made
    sql_tried,    \* dialects the last SqlParser::parse went through, in order
    doc,          \* what the template engine was made to emit: preamble and blocks
    rendered,     \* rendered_contents of the document command
    render_ok,    \* whether tera.render succeeded
    stdout,       \* texts printed with println!
    split_files,  \* --split-files
    output_dir,   \* --output-dir as spelled (absent: the current directory)
    allow_overwrite,
    disk,         \* directory tree: absolute path |-> "dir" or a file's body
    disk0,        \* the tree when the command started
    dpc,          \* position of the document command
    entries,      \* Ok(entries) of split_template_content
    widx,         \* number of entries write_rendered_files has processed
    wlog,         \* per processed entry: "written", "conflict" or "ioerror"
    template_names, \* tera.get_template_names(), in the engine's order
    base_template,  \* --root-template
    root_template   \* what get_base_template returned

pvars == <<globs, files, listErrors, store, ppc, idx, successes, failures, calls, reads,
           cache_reads, sql_tried>>
tvars == <<template_names, base_template, root_template>>
dvars == <<doc, rendered, render_ok, stdout, split_files, output_dir, allow_overwrite,
           disk, disk0, dpc, entries, widx, wlog, tvars>>
vars == <<pvars, dvars>>

-----------------------------------------------------------------------------
(* Bounds *)
MaxGlobs == 2      \* patterns on the command line
MaxMatches == 2    \* results one pattern's expansion yields
MaxBlocks == 2     \* delimiter-bounded blocks in a rendered document
MaxSources == 2    \* patterns given to one parse_files run

-----------------------------------------------------------------------------
(* Sequence helpers *)
Range(s) == {s[i] : i \in 1..Len(s)}

SeqsUpTo(S, n) == UNION {[1..k -> S] : k \in 0..n}

IsPrefix(p, s) == Len(p) <= Len(s) /\ SubSeq(s, 1, Len(p)) = p

RECURSIVE Flatten(_)
Flatten(ss) == IF ss = <<>> THEN <<>> ELSE Head(ss) \o Flatten(Tail(ss))

\* str::split(sep): the pieces between occurrences of sep; always >= 1 piece
RECURSIVE SplitOn(_, _)
SplitOn(s, sep) ==
    IF \A i \in 1..Len(s) : s[i] # sep THEN <<s>>
    ELSE LET i == CHOOSE k \in 1..Len(s) :
                     s[k] = sep /\ \A j \in 1..(k-1) : s[j] # sep
         IN <<SubSeq(s, 1, i-1)>> \o SplitOn(SubSeq(s, i+1, Len(s)), sep)

\* pieces.join(sep)
RECURSIVE JoinWith(_, _)
JoinWith(pieces, sep) ==
    IF pieces = <<>> THEN <<>>
    ELSE IF Len(pieces) = 1 THEN pieces[1]
    ELSE pieces[1] \o <<sep>> \o JoinWith(Tail(pieces), sep)

-----------------------------------------------------------------------------
(* Characters *)
NL == "\n"
SP == " "
SEP == "/"
DOT == "."
DELIM == "8<--"
LINE_ENDING == NL

\* str::lines(): split at "\n"; a final empty piece is not a line
Lines(s) ==
    LET ps == SplitOn(s, NL)
    IN IF ps[Len(ps)] = <<>> THEN SubSeq(ps, 1, Len(ps) - 1) ELSE ps

\* str::trim(): drop leading and trailing whitespace
RECURSIVE TrimStart(_)
TrimStart(s) == IF s # <<>> /\ Head(s) \in {SP, NL} THEN TrimStart(Tail(s)) ELSE s

RECURSIVE TrimEnd(_)
TrimEnd(s) ==
    IF s # <<>> /\ s[Len(s)] \in {SP, NL} THEN TrimEnd(SubSeq(s, 1, Len(s) - 1)) ELSE s

Trim(s) == TrimEnd(TrimStart(s))

-----------------------------------------------------------------------------
(* Paths *)
CurDir == <<DOT>>
ParentDir == <<DOT, DOT>>

IsAbsolute(p) == p # <<>> /\ p[1] = SEP

\* Path::components(): empty pieces and "." are dropped, except a leading "."
\* of a relative path; has_root is the RootDir component
Components(p) ==
    LET ps == SplitOn(p, SEP)
        keep(i) == ps[i] # <<>> /\ (ps[i] # CurDir \/ (i = 1 /\ ~IsAbsolute(p)))
        RECURSIVE pick(_)
        pick(i) == IF i > Len(ps) THEN <<>>
                   ELSE (IF keep(i) THEN <<ps[i]>> ELSE <<>>) \o pick(i + 1)
    IN [has_root |-> IsAbsolute(p), names |-> pick(1)]

\* Path::starts_with: whole components of base are a prefix of those of p
StartsWith(p, base) ==
    /\ Components(p).has_root = Components(base).has_root
    /\ IsPrefix(Components(base).names, Components(p).names)

\* Path::join: an absolute argument replaces the base
Join(base, rel) ==
    IF IsAbsolute(rel) THEN rel
    ELSE IF base = <<>> \/ base[Len(base)] = SEP THEN base \o rel
    ELSE base \o <<SEP>> \o rel

\* path_clean: lexical normalisation
RECURSIVE CleanNames(_, _, _)
CleanNames(ps, out, rooted) ==
    IF ps = <<>> THEN out
    ELSE LET c == Head(ps) IN
         IF c = <<>> \/ c = CurDir THEN CleanNames(Tail(ps), out, rooted)
         ELSE IF c = ParentDir THEN
              IF out # <<>> /\ out[Len(out)] # ParentDir
                  THEN CleanNames(Tail(ps), SubSeq(out, 1, Len(out) - 1), rooted)
              ELSE IF rooted THEN CleanNames(Tail(ps), out, rooted)
              ELSE CleanNames(Tail(ps), Append(out, c), rooted)
         ELSE CleanNames(Tail(ps), Append(out, c), rooted)

Clean(p) ==
    LET names == CleanNames(SplitOn(p, SEP), <<>>, IsAbsolute(p))
    IN IF IsAbsolute(p) THEN <<SEP>> \o JoinWith(names, SEP)
       ELSE IF names = <<>> THEN CurDir
       ELSE JoinWith(names, SEP)

\* Path::parent: None for a root or the empty path
HasParent(p) == Components(p).names # <<>>

Parent(p) ==
    LET c == Components(p)
        ns == SubSeq(c.names, 1, Len(c.names) - 1)
    IN (IF c.has_root THEN <<SEP>> ELSE <<>>) \o JoinWith(ns, SEP)

-----------------------------------------------------------------------------
(* Source files and the decoder registry *)

\* source paths: a stem, and an extension after the last "."
SourcePaths ==
    { <<"a", DOT, "json">>, <<"s", DOT, "tfstate">>, <<"b", DOT, "yaml">>,
      <<"c", DOT, "ini">> }

\* Path::extension: what follows the last "." of the file name, if the name
\* has one that is not its first character
HasExt(path) == \E i \in 2..Len(path) : path[i] = DOT

Extension(path) ==
    LET i == CHOOSE k \in 2..Len(path) :
                 path[k] = DOT /\ \A j \in (k+1)..Len(path) : path[j] # DOT
    IN SubSeq(path, i + 1, Len(path))

has_extension(path, extensions) == HasExt(path) /\ Extension(path) \in extensions

\* parsers(): the registry, in order
parsers ==
    << "json", "yaml", "java-properties", "openapi-v3", "toml", "ini", "xml",
       "hocon", "sql" >>

Extensions(p) ==
    CASE p = "json" -> {<<"json">>, <<"tfstate">>}
      [] p = "yaml" -> {<<"yaml">>}
      [] p = "java-properties" -> {<<"properties">>}
      [] p = "openapi-v3" -> {<<"yaml">>, <<"json">>}
      [] p = "toml" -> {<<"toml">>}
      [] p = "ini" -> {<<"ini">>}
      [] p = "xml" -> {<<"xml">>}
      [] p = "hocon" -> {<<"conf">>}
      [] p = "sql" -> {<<"sql">>}

can_parse(p, path) == has_extension(path, Extensions(p))

\* A file on disk: whether fs::read_to_string succeeds, and which decoding
\* libraries accept its text.
AllParsers == Range(parsers)

SqlDialects_Reordered ==
    << "postgresql", "generic", "mysql", "sqlite", "mssql", "hive" >>

\* let parsers: Vec<Box<dyn Dialect>> = vec![..]
SqlDialects == << "generic", "postgresql", "mysql", "sqlite", "mssql", "hive" >>

\* dialects: the SQL dialects whose grammar accepts the text
FileStates ==
    {[readable |-> FALSE, accepts |-> {}, dialects |-> {}]}
        \cup {[readable |-> TRUE, accepts |-> A,
               dialects |-> IF "sql" \in A THEN Range(SqlDialects) ELSE {}] :
                 A \in {{}, AllParsers, AllParsers \ {"openapi-v3"}}}

\* a .sql file: unreadable or readable, and accepted by any set of dialects
SqlFileStates ==
    {[readable |-> r, accepts |-> IF D = {} THEN {} ELSE {"sql"}, dialects |-> D] :
        r \in BOOLEAN, D \in SUBSET {"generic", "postgresql", "mysql", "sqlite", "mssql", "hive"}}

SqlPath == <<"d", DOT, "sql">>

FileStatesOf(path) == IF path = SqlPath THEN SqlFileStates ELSE FileStates

\* get_contents(): contents.get_or_try_init(|| fs::read_to_string(f)).  The cell
\* is filled by a successful read only; an empty cell means a read.
GetContents(cell, st) ==
    IF cell THEN [ok |-> TRUE, cell |-> TRUE, read |-> 0]
    ELSE [ok |-> st.readable, cell |-> st.readable, read |-> 1]

\* parsers.iter().map(closure).find(|p| p.is_ok()): the closure runs dialect by
\* dialect until one result is Ok; with unreadable contents every run is Err.
\* tried lists the dialects the closure ran for.
RECURSIVE SqlFrom(_, _, _, _)
SqlFrom(i, contents, st, tried) ==
    IF i > Len(SqlDialects) THEN [found |-> FALSE, tried |-> tried]
    ELSE LET t == Append(tried, SqlDialects[i]) IN
         IF contents.ok /\ SqlDialects[i] \in st.dialects
            THEN [found |-> TRUE, tried |-> t]
         ELSE SqlFrom(i + 1, contents, st, t)

\* SqlParser::parse: the found result, or bail!("Could not parse with any SQL
\* parser dialects")
SqlParse(contents, st) ==
    LET f == SqlFrom(1, contents, st, <<>>) IN
    [ok |-> f.found, read |-> 0, tried |-> f.tried, error |-> "no_dialect"]

\* FileParser::parse.  JsonParser reads the path itself and ignores the
\* contents argument; every other decoder decodes contents? .
ParseWith(p, contents, st) ==
    IF p = "sql" THEN SqlParse(contents, st)
    ELSE IF p = "json"
        THEN [ok |-> st.readable /\ p \in st.accepts, read |-> 1, tried |-> <<>>,
              error |-> IF st.readable THEN "decode" ELSE "io"]
    ELSE [ok |-> contents.ok /\ p \in st.accepts, read |-> 0, tried |-> <<>>,
          error |-> IF contents.ok THEN "decode" ELSE "io"]

CallOf(op, p, res) == [op |-> op, parser |-> p, result |-> res]

\* (mutant) the filter lets every decoder through
FilterKeeps_All(can) == TRUE

\* .filter(|p| p.can_parse(f, get_contents())): the decoder is kept when its
\* capability check said yes
FilterKeeps(can) == can

\* (mutant) a failing decoder wipes what the earlier decoders parsed
Partition_FailureClears(acc, path, p, r) ==
    IF r.ok
    THEN [acc EXCEPT !.parsed = Append(@, [path |-> path, parser |-> p, contents |-> "value"])]
    ELSE [acc EXCEPT !.parsed = <<>>,
                     !.errors = Append(@, [path |-> path, parser |-> p, error |-> r.error])]

\* the closure of .partition_map(): Ok goes left (parsed), Err goes right (errors)
Partition(acc, path, p, r) ==
    IF r.ok
    THEN [acc EXCEPT !.parsed = Append(@, [path |-> path, parser |-> p, contents |-> "value"])]
    ELSE [acc EXCEPT !.errors = Append(@, [path |-> path, parser |-> p, error |-> r.error])]

\* parse_file: the lazy chain filter(..).partition_map(..), decoder by decoder
RECURSIVE ParseFrom(_, _, _, _)
ParseFrom(i, path, st, acc) ==
    IF i > Len(parsers) THEN acc
    ELSE LET p == parsers[i]
             c1 == GetContents(acc.cell, st)
             can == can_parse(p, path)
             a1 == [acc EXCEPT !.cell = c1.cell, !.reads = @ + c1.read,
                               !.cache_reads = @ + c1.read,
                               !.calls = Append(@, CallOf("can_parse", p, can))]
         IN IF ~FilterKeeps(can) THEN ParseFrom(i + 1, path, st, a1)
            ELSE LET c2 == GetContents(a1.cell, st)
                     r == ParseWith(p, c2, st)
                     a2 == [a1 EXCEPT !.cell = c2.cell, !.reads = @ + c2.read + r.read,
                                      !.cache_reads = @ + c2.read,
                                      !.tried = @ \o r.tried,
                                      !.calls = Append(@, CallOf("parse", p, r.ok))]
                 IN ParseFrom(i + 1, path, st, Partition(a2, path, p, r))

parse_file(path, st) ==
    ParseFrom(1, path, st,
              [cell |-> FALSE, reads |-> 0, cache_reads |-> 0, tried |-> <<>>,
               calls |-> <<>>, parsed |-> <<>>, errors |-> <<>>])

-----------------------------------------------------------------------------
(* File discovery *)

\* what glob::glob(g) gives for one pattern: Err(PatternError), or the
\* GlobResults its Paths iterator yields (Ok(path), or Err(GlobError) at a path)
OkAt(path) == [ok |-> TRUE, path |-> path]
ErrAt(path) == [ok |-> FALSE, path |-> path]
ResultsAt(paths) == {OkAt(q) : q \in paths} \cup {ErrAt(q) : q \in paths}

\* the paths the patterns of a list_files run can match
GlobPaths == { <<"a", DOT, "json">>, <<"b", DOT, "yaml">> }

Malformed == [compiled |-> FALSE, results |-> <<>>]
Expansion(rs) == [compiled |-> TRUE, results |-> rs]
Expansions ==
    {Malformed} \cup {Expansion(rs) : rs \in SeqsUpTo(ResultsAt(GlobPaths), MaxMatches)}

\* globs.iter().flat_map(|g| glob::glob(g)): iterating a Result yields its Ok
\* value, and nothing for an Err; .flatten() then chains the Paths iterators
FlatMapGlob(gs) ==
    Flatten([i \in 1..Len(gs) |-> IF gs[i].compiled THEN <<gs[i].results>> ELSE <<>>])

\* (mutant) no de-duplication
UniqueByPath_KeepAll(rs) == rs

\* .unique_by(key): the first element of each key, in order
UniqueByPath(rs) ==
    LET first(i) == \A j \in 1..(i - 1) : rs[j].path # rs[i].path
    IN Flatten([i \in 1..Len(rs) |-> IF first(i) THEN <<rs[i]>> ELSE <<>>])

list_files(gs) ==
    LET rs == UniqueByPath(Flatten(FlatMapGlob(gs)))
    IN [files  |-> Flatten([i \in 1..Len(rs) |-> IF rs[i].ok THEN <<rs[i].path>> ELSE <<>>]),
        errors |-> Flatten([i \in 1..Len(rs) |->
                        IF rs[i].ok THEN <<>> ELSE <<[kind |-> "io", path |-> rs[i].path]>>])]

-----------------------------------------------------------------------------
(* The directory tree.  A node is named by its absolute list of names. *)
Name(c) == <<c>>
CwdNames == <<Name("a"), Name("b")>>       \* the process runs in /a/b

DirNode == [kind |-> "dir", body |-> <<>>]
FileNode(b) == [kind |-> "file", body |-> b]
NoEnt == <<Name("?")>>                     \* resolution failed

\* kernel path resolution: every node walked through must be a directory
RECURSIVE WalkFrom(_, _, _)
WalkFrom(at, ps, d) ==
    IF ps = <<>> THEN at
    ELSE IF at \notin DOMAIN d \/ d[at].kind # "dir" THEN NoEnt
    ELSE LET c == Head(ps) IN
         IF c = <<>> \/ c = CurDir THEN WalkFrom(at, Tail(ps), d)
         ELSE IF c = ParentDir
              THEN WalkFrom(IF at = <<>> THEN at ELSE SubSeq(at, 1, Len(at) - 1), Tail(ps), d)
         ELSE WalkFrom(Append(at, c), Tail(ps), d)

Resolve(p, d) == WalkFrom(IF IsAbsolute(p) THEN <<>> ELSE CwdNames, SplitOn(p, SEP), d)

\* Path::exists, Path::is_dir
Exists(p, d) == p # <<>> /\ Resolve(p, d) \in DOMAIN d
IsDir(p, d) == Exists(p, d) /\ d[Resolve(p, d)].kind = "dir"

\* fs::create_dir_all: "" is fine; every missing ancestor is made; a file in
\* the way is an error (the tree is returned unchanged with ok = FALSE)
RECURSIVE MkdirAll(_, _, _)
MkdirAll(at, ps, d) ==
    IF at \in DOMAIN d /\ d[at].kind # "dir" THEN [ok |-> FALSE, disk |-> d]
    ELSE LET d1 == IF at \in DOMAIN d THEN d ELSE (at :> DirNode) @@ d IN
         IF ps = <<>> THEN [ok |-> TRUE, disk |-> d1]
         ELSE LET c == Head(ps) IN
              IF c = <<>> \/ c = CurDir THEN MkdirAll(at, Tail(ps), d1)
              ELSE IF c = ParentDir
                   THEN MkdirAll(IF at = <<>> THEN at ELSE SubSeq(at, 1, Len(at) - 1),
                                 Tail(ps), d1)
              ELSE MkdirAll(Append(at, c), Tail(ps), d1)

create_dir_all(p, d) ==
    IF p = <<>> THEN [ok |-> TRUE, disk |-> d]
    ELSE LET r == MkdirAll(IF IsAbsolute(p) THEN <<>> ELSE CwdNames, SplitOn(p, SEP), d)
         IN IF r.ok THEN r ELSE [ok |-> FALSE, disk |-> d]

fs_write_KeepsExisting(p, content, d) ==
    LET at == Resolve(p, d) IN
    IF at = NoEnt \/ at = <<>> \/ (at \in DOMAIN d /\ d[at].kind = "dir")
        THEN [ok |-> FALSE, disk |-> d]
    ELSE [ok |-> TRUE, disk |-> d @@ (at :> FileNode(content))]

\* fs::write: creates or truncates; a directory at the path, or a parent that
\* is no directory, is an error
fs_write(p, content, d) ==
    LET at == Resolve(p, d) IN
    IF at = NoEnt \/ at = <<>> \/ (at \in DOMAIN d /\ d[at].kind = "dir")
        THEN [ok |-> FALSE, disk |-> d]
    ELSE [ok |-> TRUE, disk |-> (at :> FileNode(content)) @@ d]

-----------------------------------------------------------------------------
(* Output splitter *)

\* the closure of .map(): a piece with no line yields None (here <<>>),
\* otherwise <<(destination, body)>>
SplitPiece(f, out) ==
    LET ls == Lines(f) IN
    IF ls = <<>> THEN <<>>
    ELSE << [path |-> Clean(Join(out, Trim(ls[1]))),
             body |-> JoinWith(Tail(ls), LINE_ENDING)] >>

\* contents.split(delimiter).map(..).filter(is_some).map(unwrap).collect_vec()
SplitPieces(contents, out) ==
    LET ps == SplitOn(contents, DELIM)
    IN Flatten([i \in 1..Len(ps) |-> SplitPiece(ps[i], out)])

\* the containment loop: bail at the first path that does not start with output_dir
ContainmentOk(fs, out) == \A i \in 1..Len(fs) : StartsWith(fs[i].path, out)

split_template_content(contents, out, d) ==
    IF ~IsDir(out, d) THEN [ok |-> FALSE, files |-> <<>>]
    ELSE LET fs == SplitPieces(contents, out) IN
         IF ContainmentOk(fs, out) THEN [ok |-> TRUE, files |-> fs]
         ELSE [ok |-> FALSE, files |-> <<>>]

-----------------------------------------------------------------------------
(* File writer: the body of the for_each closure, for one entry *)

\* what the operating system lets through: everything, or it denies the
\* directory creation, or it denies the write
IoOutcomes == {"ok", "mkdir_denied", "write_denied"}

\* (mutant) the existence test is dropped
ShouldWrite_Always(file, overwrite, d) == TRUE

ShouldWrite(file, overwrite, d) == (Exists(file, d) /\ overwrite) \/ ~Exists(file, d)

WriteOne(e, overwrite, io, d) ==
    IF ShouldWrite(e.path, overwrite, d) THEN
        IF io = "mkdir_denied" THEN [log |-> "ioerror", disk |-> d]
        ELSE LET m == create_dir_all(Parent(e.path), d) IN
             IF ~m.ok THEN [log |-> "ioerror", disk |-> d]
             ELSE IF io = "write_denied" THEN [log |-> "ioerror", disk |-> m.disk]
             ELSE LET w == fs_write(e.path, e.body, m.disk) IN
                  [log |-> IF w.ok THEN "written" ELSE "ioerror", disk |-> w.disk]
    ELSE [log |-> "conflict", disk |-> d]

-----------------------------------------------------------------------------
(* Inputs of the document command *)

Str1(c) == <<c>>

\* a block as the template wrote it: the destination line, the body lines, and
\* whether the last line is terminated
Blk(first, lines, nl) == [first |-> first, lines |-> lines, nl |-> nl]

BlockText(b) ==
    b.first \o (IF b.lines = <<>> THEN <<>> ELSE <<NL>> \o JoinWith(b.lines, NL))
            \o (IF b.nl THEN <<NL>> ELSE <<>>)

Blocks ==
    { Blk(<<SP, "a">>, <<Str1("t")>>, TRUE),                   \* " a\nt\n"
      Blk(<<SP, "b", SEP, "a", SP>>, <<Str1("u"), Str1("t")>>, FALSE),
      Blk(<<SP, DOT, DOT, SEP, "b">>, <<Str1("t")>>, TRUE),     \* " ../b"
      Blk(<<SP, "a">>, <<Str1("u")>>, TRUE),                   \* same destination
      Blk(<<>>, <<Str1("t")>>, TRUE),                          \* empty first line
      Blk(<<>>, <<>>, FALSE) }                                 \* nothing at all

Preambles == { <<>>, <<SP, NL>>, <<"c", NL>> }

Documents == [pre : Preambles, blocks : SeqsUpTo(Blocks, MaxBlocks)]

NoDoc == [pre |-> <<>>, blocks |-> <<>>]

DocText(d) ==
    d.pre \o Flatten([i \in 1..Len(d.blocks) |-> <<DELIM>> \o BlockText(d.blocks[i])])

Old == Str1("o")                           \* body of a file that was already there

BaseTree == (<<>> :> DirNode) @@ (<<Name("a")>> :> DirNode) @@ (CwdNames :> DirNode)

Trees ==
    { BaseTree,
      (Append(CwdNames, Name("a")) :> FileNode(Old)) @@ BaseTree,
      (Append(CwdNames, Name("b")) :> DirNode)
          @@ (Append(Append(CwdNames, Name("b")), Name("a")) :> FileNode(Old)) @@ BaseTree,
      (Append(CwdNames, Name("b")) :> FileNode(Old)) @@ BaseTree }

\* None (std::env::current_dir(), absolute), and spellings the user may give
OutputDirs ==
    { <<SEP, "a", SEP, "b">>, <<"b">>, <<DOT, DOT>>, <<DOT>> }

-----------------------------------------------------------------------------
(* The document command *)

NoFile == [readable |-> FALSE, accepts |-> {}, dialects |-> {}]

ParseIdle ==
    /\ globs = <<>> /\ files = <<>> /\ listErrors = <<>> /\ store = NoFile
    /\ ppc = "idle" /\ idx = 0 /\ successes = <<>> /\ failures = <<>>
    /\ calls = <<>> /\ reads = 0 /\ cache_reads = 0 /\ sql_tried = <<>>

\* Option<String>
None == [some |-> FALSE, name |-> ""]
Some(n) == [some |-> TRUE, name |-> n]

MaxTemplates == 2   \* templates the glob loads
TemplateNames == {"t", "u", "v"}

\* --root-template: absent, or one name (loaded or not, first or not,
\* depending on the list)
Overrides == {None, Some("u")}

\* the names a template glob can load: distinct, in the order the engine lists them
TemplateLists ==
    {l \in SeqsUpTo(TemplateNames, MaxTemplates) :
        \A i, j \in 1..Len(l) : l[i] = l[j] => i = j}

get_base_template_OverrideFirst(names, base) ==
    IF names = <<>> THEN None
    ELSE IF base.some THEN base ELSE Some(names[1])

\* match template_names { [] => None, [single] => Some(single),
\*                        [first, ..] => Some(base_template or first) }
\* (template_expr only appears in the log line)
get_base_template(names, base) ==
    IF names = <<>> THEN None
    ELSE IF Len(names) = 1 THEN Some(names[1])
    ELSE IF base.some THEN base ELSE Some(names[1])

OneTemplate ==
    /\ template_names = <<"t">> /\ base_template = None /\ root_template = None

InitDoc ==
    /\ ParseIdle
    /\ OneTemplate
    /\ doc = NoDoc /\ rendered = <<>> /\ render_ok = FALSE /\ stdout = <<>>
    /\ split_files \in BOOLEAN
    /\ output_dir \in OutputDirs
    /\ allow_overwrite \in BOOLEAN
    /\ disk \in Trees /\ disk0 = disk
    /\ dpc = "start" /\ entries = <<>> /\ widx = 0 /\ wlog = <<>>

\* let root_template = get_base_template(..); if let Some(template) = root_template
SelectTemplate ==
    /\ dpc = "start"
    /\ root_template' = get_base_template(template_names, base_template)
    /\ dpc' = IF root_template'.some THEN "render" ELSE "no_template"
    /\ UNCHANGED <<pvars, doc, rendered, render_ok, stdout, split_files, output_dir,
                   allow_overwrite, disk, disk0, entries, widx, wlog,
                   template_names, base_template>>

\* render_template: the engine's text, or "" after a rendering error.  The
\* parse results reach the document only through the template's context, so
\* the text is any document the templates can be written to emit.
\* A template name the engine does not hold cannot be rendered.
Render ==
    /\ dpc = "render"
    /\ \/ /\ root_template.name \in Range(template_names)
          /\ \E d \in Documents :
                doc' = d /\ rendered' = DocText(d) /\ render_ok' = TRUE
       \/ doc' = NoDoc /\ rendered' = <<>> /\ render_ok' = FALSE
    /\ dpc' = IF split_files THEN "split" ELSE "print"
    /\ UNCHANGED <<pvars, stdout, split_files, output_dir, allow_overwrite,
                   disk, disk0, entries, widx, wlog, tvars>>

\* println!("{}", rendered_contents)
PrintRendered ==
    /\ dpc = "print"
    /\ stdout' = Append(stdout, rendered \o <<NL>>)
    /\ dpc' = "done"
    /\ UNCHANGED <<pvars, doc, rendered, render_ok, split_files, output_dir,
                   allow_overwrite, disk, disk0, entries, widx, wlog, tvars>>

\* match split_template_content(..) { Ok(entries) => write.., Err(e) => error!(..) }
Split ==
    /\ dpc = "split"
    /\ LET r == split_template_content(rendered, output_dir, disk) IN
        /\ entries' = r.files
        /\ dpc' = IF ~r.ok THEN "split_error"
                  ELSE IF r.files = <<>> THEN "done" ELSE "writing"
    /\ UNCHANGED <<pvars, doc, rendered, render_ok, stdout, split_files, output_dir,
                   allow_overwrite, disk, disk0, widx, wlog, tvars>>

AfterEntry_StopOnError(k, n, log) ==
    IF k = n \/ log = "ioerror" THEN "done" ELSE "writing"

\* for_each goes on to the next entry whatever the arm of the match logged
AfterEntry(k, n, log) == IF k = n THEN "done" ELSE "writing"

\* one iteration of entries.iter().for_each(..) in write_rendered_files;
\* file.parent().unwrap() panics for a path without parent
WriteEntry ==
    /\ dpc = "writing"
    /\ widx < Len(entries)
    /\ LET e == entries[widx + 1] IN
        IF ShouldWrite(e.path, allow_overwrite, disk) /\ ~HasParent(e.path)
        THEN /\ dpc' = "panicked"
             /\ UNCHANGED <<disk, widx, wlog>>
        ELSE \E io \in IoOutcomes :
                LET r == WriteOne(e, allow_overwrite, io, disk) IN
                /\ disk' = r.disk
                /\ wlog' = Append(wlog, r.log)
                /\ widx' = widx + 1
                /\ dpc' = AfterEntry(widx + 1, Len(entries), r.log)
    /\ UNCHANGED <<pvars, doc, rendered, render_ok, stdout, split_files, output_dir,
                   allow_overwrite, disk0, entries, tvars>>

NextDoc == SelectTemplate \/ Render \/ PrintRendered \/ Split \/ WriteEntry

SpecDoc == InitDoc /\ [][NextDoc]_vars

\* the document command over every template set and override, with the
\* destination side held to one directory
InitTemplate ==
    /\ ParseIdle
    /\ template_names \in TemplateLists
    /\ base_template \in Overrides
    /\ root_template = None
    /\ doc = NoDoc /\ rendered = <<>> /\ render_ok = FALSE /\ stdout = <<>>
    /\ split_files \in BOOLEAN
    /\ output_dir = <<SEP, "a", SEP, "b">>
    /\ allow_overwrite = TRUE
    /\ disk = BaseTree /\ disk0 = disk
    /\ dpc = "start" /\ entries = <<>> /\ widx = 0 /\ wlog = <<>>

SpecTemplate == InitTemplate /\ [][NextDoc]_vars

-----------------------------------------------------------------------------
(* The parse command: parse_files *)

DocIdle ==
    /\ doc = NoDoc /\ rendered = <<>> /\ render_ok = FALSE /\ stdout = <<>>
    /\ split_files = FALSE /\ output_dir = <<DOT>> /\ allow_overwrite = FALSE
    /\ disk = BaseTree /\ disk0 = BaseTree
    /\ dpc = "idle" /\ entries = <<>> /\ widx = 0 /\ wlog = <<>>
    /\ OneTemplate

ParseStart ==
    /\ files = <<>> /\ listErrors = <<>> /\ store = NoFile
    /\ ppc = "start" /\ idx = 0 /\ successes = <<>> /\ failures = <<>>
    /\ calls = <<>> /\ reads = 0 /\ cache_reads = 0 /\ sql_tried = <<>>

\* list_files on its own: any patterns, any expansions
InitList ==
    /\ DocIdle /\ ParseStart
    /\ globs \in SeqsUpTo(Expansions, MaxGlobs)

\* parse_files: patterns that name one file each, are malformed, or fail at a path
SourceExpansions == {Malformed} \cup {Expansion(<<r>>) : r \in ResultsAt(SourcePaths)}

InitParse ==
    /\ DocIdle /\ ParseStart
    /\ globs \in SeqsUpTo(SourceExpansions, MaxSources)

\* let (files, errors) = list_files(globs)
ListFiles ==
    /\ ppc = "start"
    /\ files' = list_files(globs).files
    /\ listErrors' = list_files(globs).errors
    /\ ppc' = "listed"
    /\ UNCHANGED <<globs, store, idx, successes, failures, calls, reads, cache_reads,
                   sql_tried, dvars>>

\* (mutant) the fold puts the newer file's results in front
FoldStep_Prepend(last, curr) == curr \o last

\* the fold closure: last.append(&mut curr)
FoldStep(last, curr) == last \o curr

\* one step of files.iter().map(parse_file).fold(..): parse the next file with
\* every decoder and append its two lists to the accumulator
ParseFile ==
    /\ ppc = "listed"
    /\ idx < Len(files)
    /\ \E st \in FileStatesOf(files[idx + 1]) :
          LET r == parse_file(files[idx + 1], st) IN
          /\ store' = st
          /\ successes' = FoldStep(successes, r.parsed)
          /\ failures' = FoldStep(failures, r.errors)
          /\ calls' = r.calls
          /\ reads' = r.reads
          /\ cache_reads' = r.cache_reads
          /\ sql_tried' = r.tried
    /\ idx' = idx + 1
    /\ UNCHANGED <<globs, files, listErrors, ppc, dvars>>

\* the fold is exhausted: (successes, failures) is returned
ParseDone ==
    /\ ppc = "listed"
    /\ idx = Len(files)
    /\ ppc' = "done"
    /\ UNCHANGED <<globs, files, listErrors, store, idx, successes, failures, calls,
                   reads, cache_reads, sql_tried, dvars>>

NextList == ListFiles
SpecList == InitList /\ [][NextList]_vars

NextParse == ListFiles \/ ParseFile \/ ParseDone
SpecParse == InitParse /\ [][NextParse]_vars

\* parse_files over one .sql file
InitSql ==
    /\ DocIdle /\ ParseStart
    /\ globs = <<Expansion(<<OkAt(SqlPath)>>)>>

SpecSql == InitSql /\ [][NextParse]_vars

-----------------------------------------------------------------------------
(* Claims about discovery and parsing *)

Listed == ppc \in {"listed", "done"}

AllResults == successes \o failures

Pos(seq, x) == CHOOSE i \in 1..Len(seq) : seq[i] = x

\* number of ParseSuccess / ParseFailure entries of decoder p for file f
EntriesOf(f, p) ==
    Cardinality({k \in 1..Len(AllResults) :
                    AllResults[k].path = f /\ AllResults[k].parser = p})

\* C1: during one parse_file pass the file's content is read from the
\* filesystem at most once, whatever the extension.
C1_ReadAtMostOnce == reads <= 1

\* C11: within one parse_file pass only the first access to the content reads
\* the filesystem; every later access is served from what the first one got,
\* also when the first read failed.
C11_FirstAccessFixesOutcome == cache_reads <= 1

\* the SQL decoder's entries among the results
SqlSuccesses == {k \in 1..Len(successes) : successes[k].parser = "sql"}
SqlFailures == {k \in 1..Len(failures) : failures[k].parser = "sql"}

SqlParsed == idx > 0 /\ files[idx] = SqlPath

\* C15: SqlParser::parse goes through generic, PostgreSQL, MySQL, SQLite,
\* MS-SQL, Hive in this order; it returns the result of the first dialect that
\* parses and tries none after it; when none parses it returns one failure
\* saying that no dialect succeeded.
C15_FirstDialectWins ==
    SqlParsed =>
        LET order == << "generic", "postgresql", "mysql", "sqlite", "mssql", "hive" >>
            n == Len(sql_tried)
        IN /\ n >= 1 /\ IsPrefix(sql_tried, order)
           /\ (store.readable /\ store.dialects # {}) =>
                 /\ sql_tried[n] \in store.dialects
                 /\ \A k \in 1..(n - 1) : sql_tried[k] \notin store.dialects
                 /\ Cardinality(SqlSuccesses) = 1 /\ SqlFailures = {}
           /\ ~(store.readable /\ store.dialects # {}) =>
                 /\ sql_tried = order
                 /\ SqlSuccesses = {} /\ Cardinality(SqlFailures) = 1
                 /\ \A k \in SqlFailures : failures[k].error = "no_dialect"

\* a file only PostgreSQL and Hive accept: generic was tried and failed,
\* PostgreSQL gave the result, nothing after it was tried
C15_Witness ==
    /\ SqlParsed /\ store.readable
    /\ store.dialects = {"postgresql", "hive"}
    /\ sql_tried = << "generic", "postgresql" >>
    /\ Cardinality(SqlSuccesses) = 1

\* C4: parse is invoked on a decoder only right after that decoder's can_parse
\* returned true for the file, and a decoder whose can_parse returned false has
\* no ParseSuccess and no ParseFailure for it.
C4_ParseOnlyAfterCanParse ==
    \A k \in 1..Len(calls) :
        /\ calls[k].op = "parse" =>
              k > 1 /\ calls[k - 1] = CallOf("can_parse", calls[k].parser, TRUE)
        /\ (calls[k].op = "can_parse" /\ ~calls[k].result) =>
              /\ idx > 0
              /\ EntriesOf(files[idx], calls[k].parser) = 0
              /\ \A j \in 1..Len(calls) :
                    ~(calls[j].op = "parse" /\ calls[j].parser = calls[k].parser)

\* a .ini file was parsed: every decoder was asked, only ini parsed it
C4_Witness ==
    /\ idx > 0 /\ files[idx] = <<"c", DOT, "ini">>
    /\ Len(calls) = Len(parsers) + 1
    /\ \E k \in 1..Len(calls) : calls[k] = CallOf("parse", "ini", TRUE)
    /\ \E k \in 1..Len(calls) : calls[k] = CallOf("can_parse", "json", FALSE)
    /\ \E k \in 1..Len(successes) :
          successes[k] = [path |-> files[idx], parser |-> "ini", contents |-> "value"]

\* C5: every processed file has exactly one entry (success or failure) per
\* decoder whose can_parse is true for it, under that decoder's name and the
\* file's path, and none from any other decoder; a failure removes nothing and
\* every discovered file is processed before parse_files returns.
C5_OneEntryPerCapableDecoder ==
    Listed =>
        /\ \A k \in 1..idx : \A p \in AllParsers :
              EntriesOf(files[k], p) = IF can_parse(p, files[k]) THEN 1 ELSE 0
        /\ \A k \in 1..Len(AllResults) :
              /\ AllResults[k].parser \in AllParsers
              /\ \E j \in 1..idx : files[j] = AllResults[k].path
        /\ ppc = "done" => idx = Len(files)

\* a file two decoders claim, the first succeeding and the second failing, and
\* a later file still parsed
C5_Witness ==
    /\ ppc = "done" /\ Len(files) = 2
    /\ \E i \in 1..Len(successes), j \in 1..Len(failures) :
          /\ successes[i].path = files[1] /\ failures[j].path = files[1]
          /\ successes[i].parser = "yaml" /\ failures[j].parser = "openapi-v3"
    /\ \E i \in 1..Len(AllResults) : AllResults[i].path = files[2]

\* C9: successes and failures are each ordered by discovery order of the file
\* and, within a file, by the decoder's position in parsers().
InRunOrder(es) ==
    \A i, j \in 1..Len(es) :
        i < j =>
            \/ Pos(files, es[i].path) < Pos(files, es[j].path)
            \/ /\ es[i].path = es[j].path
               /\ Pos(parsers, es[i].parser) < Pos(parsers, es[j].parser)

C9_ResultsInRunOrder ==
    Listed => InRunOrder(successes) /\ InRunOrder(failures)

\* two files discovered against alphabetical order, two decoders each
C9_Witness ==
    /\ ppc = "done"
    /\ files = << <<"b", DOT, "yaml">>, <<"a", DOT, "json">> >>
    /\ Len(successes) = 3 /\ Len(failures) = 1
    /\ successes[1].parser = "yaml" /\ successes[2].parser = "openapi-v3"
    /\ successes[3].parser = "json" /\ failures[1].parser = "openapi-v3"

\* C6: list_files returns each path at most once.
C6_NoDuplicateFiles ==
    \A i, j \in 1..Len(files) : i # j => files[i] # files[j]

\* two patterns matched the same path, which is listed
C6_Witness ==
    /\ ppc = "listed"
    /\ \E i, j \in 1..Len(globs) : \E q \in GlobPaths :
          /\ i # j
          /\ OkAt(q) \in Range(globs[i].results)
          /\ OkAt(q) \in Range(globs[j].results)
          /\ q \in Range(files)

\* C10: a malformed pattern yields a listing error in the returned error list.
C10_MalformedPatternReported ==
    (ppc = "listed" /\ \E i \in 1..Len(globs) : ~globs[i].compiled)
        => \E k \in 1..Len(listErrors) : listErrors[k].kind = "pattern"

\* the paths the expansions yield successfully, each at its first occurrence
YieldedPaths ==
    LET rs == Flatten(FlatMapGlob(globs))
        oks == Flatten([i \in 1..Len(rs) |-> IF rs[i].ok THEN <<rs[i].path>> ELSE <<>>])
        first(i) == \A j \in 1..(i - 1) : oks[j] # oks[i]
    IN Flatten([i \in 1..Len(oks) |-> IF first(i) THEN <<oks[i]>> ELSE <<>>])

\* C18: the returned file list holds every path some expansion yields
\* successfully, in first-occurrence order, also when a listing error with
\* the same path came earlier.
C18_ListComplete == ppc = "listed" => files = YieldedPaths

-----------------------------------------------------------------------------
(* Vocabulary of the document claims *)

\* where a path points, whether or not anything is there yet
Locate(p) ==
    CleanNames((IF IsAbsolute(p) THEN <<>> ELSE CwdNames) \o SplitOn(p, SEP), <<>>, TRUE)

\* p lies at or below root in the directory tree
Inside(p, root) == IsPrefix(Locate(root), Locate(p))

\* a block's destination: its first line, trimmed, joined onto the output root
\* and normalised; its body: the remaining lines
BlockDest(b) == Clean(Join(output_dir, Trim(b.first)))
BlockBody(b) == JoinWith(b.lines, LINE_ENDING)

SplitReturned == split_files /\ dpc \in {"split_error", "writing", "done", "panicked"}
SplitOk == split_files /\ dpc \in {"writing", "done", "panicked"}

\* C2: a block whose destination is outside the output root makes the split
\* fail, and nothing is written in that invocation.
C2_EscapeFailsSplit ==
    (SplitReturned /\ \E i \in 1..Len(doc.blocks) :
                        /\ BlockText(doc.blocks[i]) # <<>>
                        /\ ~Inside(BlockDest(doc.blocks[i]), output_dir))
        => (dpc = "split_error" /\ disk = disk0 /\ wlog = <<>>)

\* C7: K non-empty blocks with non-empty first lines and destinations inside
\* the root give exactly K entries, the i-th holding the i-th block's
\* destination and body, with or without text before the first delimiter.
C7_OneEntryPerBlock ==
    (/\ SplitReturned /\ render_ok /\ IsDir(output_dir, disk0)
     /\ \A i \in 1..Len(doc.blocks) :
            /\ Trim(doc.blocks[i].first) # <<>>
            /\ StartsWith(BlockDest(doc.blocks[i]), output_dir))
        => /\ SplitOk
           /\ entries = [i \in 1..Len(doc.blocks) |->
                            [path |-> BlockDest(doc.blocks[i]),
                             body |-> BlockBody(doc.blocks[i])]]

\* C8: what precedes the first delimiter yields no entry (and so no write
\* attempt): the entries are those of the document without its preamble.
C8_PreambleDiscarded ==
    SplitOk => entries = SplitPieces(DocText([doc EXCEPT !.pre = <<>>]), output_dir)

\* an earlier entry of the batch made the node entry i names: it wrote the
\* same destination, or created it as a directory on the way to its own
MadeEarlier(i) ==
    \E j \in 1..(i - 1) :
        /\ wlog[j] # "conflict"
        /\ IsPrefix(Locate(entries[i].path), Locate(entries[j].path))

\* C3: without allow_overwrite, whatever existed before the batch is left as it
\* was and each entry naming it is reported as a conflict; the batch is never
\* cut short, an entry whose destination was not there is never skipped as a
\* conflict, and an entry that was written is on disk with its body.
C3_ConflictSkipsOnlyThatEntry ==
    (SplitOk /\ ~allow_overwrite) =>
        /\ \A at \in DOMAIN disk0 : at \in DOMAIN disk /\ disk[at] = disk0[at]
        /\ dpc = "done" => widx = Len(entries)
        /\ \A i \in 1..widx :
              /\ Exists(entries[i].path, disk0) => wlog[i] = "conflict"
              /\ (wlog[i] = "conflict" /\ ~Exists(entries[i].path, disk0)) => MadeEarlier(i)
              /\ wlog[i] = "written" =>
                    /\ Locate(entries[i].path) \in DOMAIN disk
                    /\ disk[Locate(entries[i].path)] = FileNode(entries[i].body)

\* a finished batch in which an entry met an existing file and a later entry
\* was written
C3_Witness ==
    /\ SplitOk /\ ~allow_overwrite /\ dpc = "done"
    /\ \E i, j \in 1..widx :
          /\ i < j
          /\ IsDir(entries[i].path, disk0) = FALSE
          /\ Exists(entries[i].path, disk0)
          /\ wlog[i] = "conflict"
          /\ disk[Locate(entries[i].path)] = FileNode(Old)
          /\ wlog[j] = "written"

\* the render step has run and the engine reported an error
RenderFailed ==
    ~render_ok /\ dpc \in {"split", "print", "split_error", "writing", "done", "panicked"}

\* C12: after a rendering failure nothing is printed to standard output as
\* rendered text, and no file is written.
C12_RenderFailureAborts == RenderFailed => (stdout = <<>> /\ disk = disk0)

\* entry i is the last processed entry that names its destination
LastNaming(i) ==
    \A j \in (i + 1)..widx : Locate(entries[j].path) # Locate(entries[i].path)

\* C13: an I/O failure on one entry concerns that entry only: the batch goes
\* through every entry, and every entry whose directory creation and write
\* succeeded is on disk with its body (until a later entry of the batch
\* rewrites the same destination).
C13_IoFailureSkipsOnlyThatEntry ==
    SplitOk =>
        /\ dpc = "done" => widx = Len(entries)
        /\ Len(wlog) = widx
        /\ \A i \in 1..widx :
              (wlog[i] = "written" /\ (\A j \in (i + 1)..widx : wlog[j] = "written" => 
                                            Locate(entries[j].path) # Locate(entries[i].path)))
                 => /\ Locate(entries[i].path) \in DOMAIN disk
                    /\ disk[Locate(entries[i].path)] = FileNode(entries[i].body)

\* a finished batch in which an entry failed on I/O and a later entry is on disk
C13_Witness ==
    /\ SplitOk /\ dpc = "done"
    /\ \E i, j \in 1..widx :
          /\ i < j
          /\ wlog[i] = "ioerror"
          /\ wlog[j] = "written"
          /\ Locate(entries[j].path) \in DOMAIN disk
          /\ disk[Locate(entries[j].path)] = FileNode(entries[j].body)

\* C14: one discovered template is the root whatever the override says; of
\* several the override is the root, or the first one when there is no
\* override; with none there is no root, and nothing is rendered, printed or
\* written.
C14_RootTemplateSelection ==
    dpc # "start" =>
        /\ Len(template_names) = 0 =>
                /\ root_template = None /\ dpc = "no_template"
                /\ rendered = <<>> /\ ~render_ok /\ stdout = <<>>
                /\ entries = <<>> /\ wlog = <<>> /\ disk = disk0
        /\ Len(template_names) = 1 => root_template = Some(template_names[1])
        /\ (Len(template_names) > 1 /\ base_template.some) => root_template = base_template
        /\ (Len(template_names) > 1 /\ ~base_template.some) =>
                root_template = Some(template_names[1])

\* a single template was rendered and written although the override names
\* another one
C14_Witness ==
    /\ Len(template_names) = 1 /\ base_template.some
    /\ base_template.name # template_names[1]
    /\ root_template = Some(template_names[1])
    /\ render_ok /\ dpc = "done" /\ wlog # <<>>

\* a destination line that is a plain relative path: names only
PlainRelative(p) ==
    /\ p # <<>> /\ ~IsAbsolute(p)
    /\ \A i \in 1..Len(SplitOn(p, SEP)) :
          SplitOn(p, SEP)[i] \notin {<<>>, CurDir, ParentDir}

\* C16: when the output directory exists, however it is spelled, a document
\* whose blocks all carry plain relative destinations passes the containment
\* check.
C16_PlainDestinationAccepted ==
    (/\ SplitReturned /\ render_ok /\ IsDir(output_dir, disk0)
     /\ doc.pre = <<>>
     /\ \A i \in 1..Len(doc.blocks) : PlainRelative(Trim(doc.blocks[i].first)))
        => SplitOk

\* C17: without allow_overwrite a destination is written at most once in a
\* batch: after an entry wrote it, every later entry naming it is a conflict
\* and the file keeps the first body; with allow_overwrite the file holds the
\* body of the last entry that names it.
C17_WrittenAtMostOnce ==
    SplitOk =>
        /\ ~allow_overwrite =>
              \A i, j \in 1..widx :
                 (/\ i < j /\ wlog[i] = "written"
                  /\ Locate(entries[j].path) = Locate(entries[i].path))
                    => /\ wlog[j] = "conflict"
                       /\ disk[Locate(entries[i].path)] = FileNode(entries[i].body)
        /\ allow_overwrite =>
              \A i \in 1..widx :
                 (wlog[i] = "written" /\ LastNaming(i))
                    => disk[Locate(entries[i].path)] = FileNode(entries[i].body)

\* two entries of a finished batch named the same new path: the first was
\* written, the second reported as a conflict
C17_Witness ==
    /\ SplitOk /\ ~allow_overwrite /\ dpc = "done"
    /\ \E i, j \in 1..widx :
          /\ i < j
          /\ Locate(entries[j].path) = Locate(entries[i].path)
          /\ ~Exists(entries[i].path, disk0)
          /\ entries[i].body # entries[j].body
          /\ wlog[i] = "written" /\ wlog[j] = "conflict"
          /\ disk[Locate(entries[i].path)] = FileNode(entries[i].body)

====
